---- MODULE Spec2Model ----
(***************************************************************************)
(* A model of lib_gpr.c: Gaussian-process regression on dense kernel       *)
(* matrices through BLAS/LAPACK.                                           *)
(*                                                                         *)
(* Numbers.  A C double is modelled bit for bit as an IEEE 754 binary64    *)
(* value: normal and subnormal numbers, the two zeros, the infinities and  *)
(* NaN.  +, -, *, / and sqrt compute the exact result in wide integers and *)
(* round it to nearest, ties to even.  log is the C library's, which is    *)
(* accurate to within one unit in the last place: the logarithm is         *)
(* computed to more than 96 bits and the library returns either of the two *)
(* doubles next to it.                                                     *)
(*                                                                         *)
(* Memory.  A buffer is a function from 0..n-1 to numbers, indexed with    *)
(* the flat index expressions of the source (krn[i * ns + i]).  The heap   *)
(* maps buffer names to buffers and tracks which malloc'ed scratch         *)
(* buffers are live.  Every C function is an operator from a heap and      *)
(* pointer arguments (buffer names) to a result record holding the new     *)
(* heap.                                                                   *)
(***************************************************************************)
EXTENDS Integers, Sequences, FiniteSets, TLC

\* ------------------------------------------------------------------------
\* Bounds of the model

\* largest number of training points (ns) and of query points (np)
MaxN == 2
\* largest diagonal entry of the triangular factor a training kernel is
\* built from
MaxDiag == 2
\* number of library calls the driver makes in one run
MaxCalls == 2

\* ------------------------------------------------------------------------
\* Wide naturals: four limbs of 28 bits, least significant first.  They hold
\* the exact integer results (up to 112 bits) from which a double is rounded.

WZero == << 0, 0, 0, 0 >>

Limb(w, i) == IF i \in 1 .. 4 THEN w[i] ELSE 0

\* limb i of w * 2^(28 q + r), r < 28
ShlLimb(w, i, q, r) ==
    (Limb(w, i - q) % 2^(28 - r)) * 2^r + Limb(w, i - q - 1) \div 2^(28 - r)

\* w * 2^k
WShl(w, k) ==
    << ShlLimb(w, 1, k \div 28, k % 28), ShlLimb(w, 2, k \div 28, k % 28),
       ShlLimb(w, 3, k \div 28, k % 28), ShlLimb(w, 4, k \div 28, k % 28) >>

\* limb i of w \div 2^(28 q + r), r < 28
ShrLimb(w, i, q, r) ==
    Limb(w, i + q) \div 2^r + (Limb(w, i + q + 1) % 2^r) * 2^(28 - r)

\* w \div 2^k
WShr(w, k) ==
    << ShrLimb(w, 1, k \div 28, k % 28), ShrLimb(w, 2, k \div 28, k % 28),
       ShrLimb(w, 3, k \div 28, k % 28), ShrLimb(w, 4, k \div 28, k % 28) >>

\* bit k of w
WBit(w, k) == (Limb(w, k \div 28 + 1) \div 2^(k % 28)) % 2

\* some bit of w below bit k is set
WLow(w, k) ==
    \/ \E i \in 1 .. k \div 28 : w[i] # 0
    \/ Limb(w, k \div 28 + 1) % 2^(k % 28) # 0

\* the number of bits of x < 2^7, of x < 2^14, of a limb
Len7(x) ==
    IF x >= 64 THEN 7 ELSE IF x >= 32 THEN 6 ELSE IF x >= 16 THEN 5
    ELSE IF x >= 8 THEN 4 ELSE IF x >= 4 THEN 3 ELSE IF x >= 2 THEN 2 ELSE x

Len14(x) == IF x >= 2^7 THEN 7 + Len7(x \div 2^7) ELSE Len7(x)

LimbLen(x) == IF x >= 2^14 THEN 14 + Len14(x \div 2^14) ELSE Len14(x)

\* the number of bits of w
WLen(w) ==
    IF w[4] # 0 THEN 84 + LimbLen(w[4])
    ELSE IF w[3] # 0 THEN 56 + LimbLen(w[3])
    ELSE IF w[2] # 0 THEN 28 + LimbLen(w[2])
    ELSE LimbLen(w[1])

\* the carry out of limb i of a + b
RECURSIVE WCarry(_, _, _)
WCarry(a, b, i) ==
    IF i = 0 THEN 0 ELSE (a[i] + b[i] + WCarry(a, b, i - 1)) \div 2^28

\* a + b modulo 2^112
WAdd(a, b) ==
    LET s1 == a[1] + b[1]
        s2 == a[2] + b[2] + s1 \div 2^28
        s3 == a[3] + b[3] + s2 \div 2^28
        s4 == a[4] + b[4] + s3 \div 2^28
    IN  << s1 % 2^28, s2 % 2^28, s3 % 2^28, s4 % 2^28 >>

\* the borrow out of limb i of a - b
RECURSIVE WBorrow(_, _, _)
WBorrow(a, b, i) ==
    IF i = 0 THEN 0
    ELSE IF a[i] < b[i] + WBorrow(a, b, i - 1) THEN 1 ELSE 0

\* a - b for a >= b
WSub(a, b) ==
    LET d1 == a[1] - b[1]
        d2 == a[2] - b[2] - (IF d1 < 0 THEN 1 ELSE 0)
        d3 == a[3] - b[3] - (IF d2 < 0 THEN 1 ELSE 0)
        d4 == a[4] - b[4] - (IF d3 < 0 THEN 1 ELSE 0)
    IN  << (d1 + 2^28) % 2^28, (d2 + 2^28) % 2^28,
           (d3 + 2^28) % 2^28, (d4 + 2^28) % 2^28 >>

\* the four 14-bit digits of the 56-bit number hi * 2^28 + lo
Digits(hi, lo) == << lo % 2^14, lo \div 2^14, hi % 2^14, hi \div 2^14 >>

\* the eight 14-bit digits of w
WDigits(w) == Digits(w[2], w[1]) \o Digits(w[4], w[3])

MulTerm(a, b, i, k) ==
    IF i <= Len(a) /\ k - i + 1 \in 1 .. Len(b) THEN a[i] * b[k - i + 1] ELSE 0

\* column k of the schoolbook product of the digit sequences a and b, of at
\* most eight digits each: the sum of the digit products of weight
\* 2^(14 (k - 1)), below 2^31
MulCol(a, b, k) ==
    MulTerm(a, b, 1, k) + MulTerm(a, b, 2, k) + MulTerm(a, b, 3, k)
        + MulTerm(a, b, 4, k) + MulTerm(a, b, 5, k) + MulTerm(a, b, 6, k)
        + MulTerm(a, b, 7, k) + MulTerm(a, b, 8, k)

\* the sixteen columns of the product
MulCols(a, b) ==
    << MulCol(a, b, 1), MulCol(a, b, 2), MulCol(a, b, 3), MulCol(a, b, 4),
       MulCol(a, b, 5), MulCol(a, b, 6), MulCol(a, b, 7), MulCol(a, b, 8),
       MulCol(a, b, 9), MulCol(a, b, 10), MulCol(a, b, 11), MulCol(a, b, 12),
       MulCol(a, b, 13), MulCol(a, b, 14), MulCol(a, b, 15), MulCol(a, b, 16) >>

\* digit p (0, 1 or 2) in base 2^14 of column k of c
ColDigit(c, k, p) == IF k < 1 THEN 0 ELSE (c[k] \div 2^(14 * p)) % 2^14

\* The product is the sum over p of the numbers whose digit k + p is digit p
\* of column k.  Limb i of the p-th of them
ColLimb(c, i, p) == ColDigit(c, 2 * i - 1 - p, p) + ColDigit(c, 2 * i - p, p) * 2^14

\* limbs off+1 .. off+4 of the p-th of them
ColWide(c, off, p) ==
    << ColLimb(c, off + 1, p), ColLimb(c, off + 2, p),
       ColLimb(c, off + 3, p), ColLimb(c, off + 4, p) >>

\* the low four limbs of the product with columns c
ColsLow(c) == WAdd(WAdd(ColWide(c, 0, 0), ColWide(c, 0, 1)), ColWide(c, 0, 2))

\* the high four limbs: the sum of the three high parts and of the carries
\* out of the sum of the three low parts
ColsHigh(c) ==
    WAdd(WAdd(WAdd(ColWide(c, 4, 0), ColWide(c, 4, 1)), ColWide(c, 4, 2)),
         << WCarry(ColWide(c, 0, 0), ColWide(c, 0, 1), 4)
                + WCarry(WAdd(ColWide(c, 0, 0), ColWide(c, 0, 1)), ColWide(c, 0, 2), 4),
            0, 0, 0 >>)

\* the product of two sequences of four digits
WMul(a, b) == ColsLow(MulCols(a, b))

\* floor(x * y / 2^112): the product of the fractions x / 2^112 and y / 2^112
WMulTop(x, y) == ColsHigh(MulCols(WDigits(x), WDigits(y)))

\* w * k for a natural k < 2^14 with w * k < 2^112
WTimes(w, k) == ColsLow(MulCols(WDigits(w), << k >>))

\* ------------------------------------------------------------------------
\* IEEE 754 binary64.  A C double is << s, e, hi, lo >>: the number
\* s * (hi * 2^28 + lo) * 2^e with s in {-1, 1}.  A normal number has a
\* 53-bit mantissa, 2^52 <= hi * 2^28 + lo < 2^53, and -1074 <= e <= 971; a
\* subnormal number has e = -1074 and a mantissa below 2^52, and the two
\* zeros are the subnormals with mantissa 0.  An infinity is
\* << s, 972, 0, 0 >> and a NaN << 0, 972, 0, 0 >>.  Every operation computes
\* the exact result and rounds it to nearest, ties to even, as the hardware
\* does, with overflow to infinity and gradual underflow.

ZeroOf(s) == << s, -1074, 0, 0 >>
Zero == ZeroOf(1)
NaN == << 0, 972, 0, 0 >>
Inf(s) == << s, 972, 0, 0 >>

IsNaN(x) == x[1] = 0
IsInf(x) == x[1] # 0 /\ x[2] = 972
\* x == 0 in C: either zero
IsZero(x) == x[2] = -1074 /\ x[3] = 0 /\ x[4] = 0

Abs(n) == IF n < 0 THEN -n ELSE n

\* the mantissa of x as a wide natural
Mant(x) == << x[4], x[3], 0, 0 >>

\* the double with sign s, mantissa w and exponent e
Pack(s, w, e) == IF e > 971 THEN Inf(s) ELSE << s, e, w[2], w[1] >>

\* w rounded up: the mantissa after adding one unit in the last place
RoundUp(s, w, e) ==
    IF w[1] + 1 < 2^28 THEN Pack(s, << w[1] + 1, w[2] >>, e)
    ELSE IF w[2] + 1 < 2^25 THEN Pack(s, << 0, w[2] + 1 >>, e)
    ELSE Pack(s, << 0, 2^24 >>, e + 1)

RoundPick(s, w, e, up) == IF up THEN RoundUp(s, w, e) ELSE Pack(s, w, e)

\* the low `drop` bits of the n-bit w are rounded away; sticky says that the
\* exact value exceeds w * 2^e
RoundDrop(s, w, e, sticky, n, drop) ==
    IF drop <= 0 THEN Pack(s, WShl(w, -drop), e + drop)
    ELSE IF drop > n THEN ZeroOf(s)
    ELSE RoundPick(s, WShr(w, drop), e + drop,
                   /\ WBit(w, drop - 1) = 1
                   /\ (WLow(w, drop - 1) \/ sticky \/ WBit(w, drop) = 1))

\* the double nearest to s * w * 2^e (plus a fraction of 2^e when sticky):
\* the result keeps 53 bits of w, or fewer when its last place would be
\* below 2^-1074
Round(s, w, e, sticky) ==
    IF w = WZero THEN ZeroOf(s)
    ELSE LET n == WLen(w)
         IN  RoundDrop(s, w, e, sticky, n,
                       IF n - 53 >= -1074 - e THEN n - 53 ELSE -1074 - e)

\* the integer n, |n| < 2^28, converted to double
D(n) == Round(IF n < 0 THEN -1 ELSE 1, << Abs(n), 0, 0, 0 >>, 0, FALSE)

\* 1.0
One == << 1, -52, 16777216, 0 >>

DNeg(x) == << -x[1], x[2], x[3], x[4] >>

\* x > 0
DPos(x) == x[1] = 1 /\ ~IsZero(x)

\* the finite non-zero x with its mantissa shifted to 53 bits; the exponent
\* of a subnormal x goes below -1074
Norm(x) ==
    IF x[3] >= 2^24 THEN x
    ELSE LET k == 53 - WLen(Mant(x))
             m == WShl(Mant(x), k)
         IN  << x[1], x[2] - k, m[2], m[1] >>

\* x + y for finite non-zero x, y whose mantissas X, Y are aligned at 2^e
AddWide(sx, X, sy, Y, e) ==
    IF sx = sy THEN Round(sx, WAdd(X, Y), e, FALSE)
    ELSE IF X = Y THEN Zero
    ELSE IF WBorrow(X, Y, 4) = 0 THEN Round(sx, WSub(X, Y), e, FALSE)
    ELSE Round(sy, WSub(Y, X), e, FALSE)

\* x + y for finite non-zero x, y with x[2] >= y[2]; a y below an eighth of
\* the last place of x does not change it
AddAligned(x, y) ==
    IF x[2] - y[2] > 55 THEN x
    ELSE AddWide(x[1], WShl(Mant(x), x[2] - y[2]), y[1], Mant(y), y[2])

DAdd(x, y) ==
    IF IsNaN(x) \/ IsNaN(y) THEN NaN
    ELSE IF IsInf(x) THEN (IF IsInf(y) /\ y[1] # x[1] THEN NaN ELSE x)
    ELSE IF IsInf(y) THEN y
    ELSE IF IsZero(x) THEN (IF IsZero(y) /\ y[1] # x[1] THEN Zero ELSE y)
    ELSE IF IsZero(y) THEN x
    ELSE IF x[2] >= y[2] THEN AddAligned(x, y)
    ELSE AddAligned(y, x)

DSub(x, y) == DAdd(x, DNeg(y))

DMul(x, y) ==
    IF IsNaN(x) \/ IsNaN(y) THEN NaN
    ELSE IF IsInf(x) \/ IsInf(y)
         THEN (IF IsZero(x) \/ IsZero(y) THEN NaN ELSE Inf(x[1] * y[1]))
    ELSE Round(x[1] * y[1], WMul(Digits(x[3], x[4]), Digits(y[3], y[4])),
               x[2] + y[2], FALSE)

\* the state of the restoring division by dh:dl after k quotient bits:
\* << rh, rl, qh, ql, k >>, the remainder rh:rl and the quotient qh:ql.
\* The quotient bit is out: it is appended and the remainder is doubled
DivNext(rh, rl, qh, ql, bit, k) ==
    << 2 * rh + (2 * rl) \div 2^28, (2 * rl) % 2^28,
       2 * qh + (2 * ql + bit) \div 2^28, (2 * ql + bit) % 2^28, k + 1 >>

\* one quotient bit
DivStep(st, dh, dl) ==
    IF st[1] > dh \/ (st[1] = dh /\ st[2] >= dl)
    THEN DivNext(st[1] - dh - (IF st[2] < dl THEN 1 ELSE 0),
                 (st[2] - dl + 2^28) % 2^28, st[3], st[4], 1, st[5])
    ELSE DivNext(st[1], st[2], st[3], st[4], 0, st[5])

Div3(st, dh, dl) == DivStep(DivStep(DivStep(st, dh, dl), dh, dl), dh, dl)

Div9(st, dh, dl) == Div3(Div3(Div3(st, dh, dl), dh, dl), dh, dl)

Div19(st, dh, dl) == DivStep(Div9(Div9(st, dh, dl), dh, dl), dh, dl)

\* the state after 57 quotient bits: from the remainder m and no quotient
\* bits, the quotient is floor(m * 2^56 / d)
RECURSIVE DivLoop(_, _, _)
DivLoop(st, dh, dl) ==
    IF st[5] = 57 THEN st ELSE DivLoop(Div19(st, dh, dl), dh, dl)

\* the quotient of the state st, inexact when a remainder is left
DivRound(s, st, e) ==
    Round(s, << st[4], st[3] % 2^28, st[3] \div 2^28, 0 >>, e,
          st[1] # 0 \/ st[2] # 0)

\* x / y for finite non-zero x, y with 53-bit mantissas
DivNorm(x, y) ==
    DivRound(x[1] * y[1], DivLoop(<< x[3], x[4], 0, 0, 0 >>, y[3], y[4]),
             x[2] - y[2] - 56)

DDiv(x, y) ==
    IF IsNaN(x) \/ IsNaN(y) THEN NaN
    ELSE IF IsInf(x) THEN (IF IsInf(y) THEN NaN ELSE Inf(x[1] * y[1]))
    ELSE IF IsInf(y) THEN ZeroOf(x[1] * y[1])
    ELSE IF IsZero(y) THEN (IF IsZero(x) THEN NaN ELSE Inf(x[1] * y[1]))
    ELSE IF IsZero(x) THEN ZeroOf(x[1] * y[1])
    ELSE DivNorm(Norm(x), Norm(y))

\* the sum f[0] + ... + f[k-1], accumulated in index order from 0.0
RECURSIVE DSum(_, _)
DSum(f, k) == IF k = 0 THEN Zero ELSE DAdd(DSum(f, k - 1), f[k - 1])

\* the state of the digit-by-digit square root after k root bits:
\* << sh, sl, rh, rl, oh, ol, k >>, sh:sl the 54-bit window of radicand bits
\* not yet brought down, rh:rl the remainder, oh:ol the root.
\* The remainder nh:nl after bringing down two bits is compared with the
\* trial subtrahend th:tl = 4 * root + 1
SqrtTry(sh, sl, nh, nl, th, tl, oh, ol, k) ==
    IF nh > th \/ (nh = th /\ nl >= tl)
    THEN << sh, sl, nh - th - (IF nl < tl THEN 1 ELSE 0), (nl - tl + 2^28) % 2^28,
            2 * oh + (2 * ol + 1) \div 2^28, (2 * ol + 1) % 2^28, k + 1 >>
    ELSE << sh, sl, nh, nl, 2 * oh + (2 * ol) \div 2^28, (2 * ol) % 2^28, k + 1 >>

\* one root bit
SqrtStep(st) ==
    SqrtTry((4 * st[1] + (4 * st[2]) \div 2^28) % 2^26, (4 * st[2]) % 2^28,
            4 * st[3] + (4 * st[4] + st[1] \div 2^24) \div 2^28,
            (4 * st[4] + st[1] \div 2^24) % 2^28,
            4 * st[5] + (4 * st[6] + 1) \div 2^28, (4 * st[6] + 1) % 2^28,
            st[5], st[6], st[7])

Sqrt3(st) == SqrtStep(SqrtStep(SqrtStep(st)))

Sqrt11(st) == SqrtStep(SqrtStep(Sqrt3(Sqrt3(Sqrt3(st)))))

\* the 55 bits of the integer square root of s * 2^56 for the 54-bit s, and
\* whether the root is inexact
RECURSIVE SqrtLoop(_)
SqrtLoop(st) ==
    IF st[7] = 55 THEN << st[6], st[5], st[3] # 0 \/ st[4] # 0 >>
    ELSE SqrtLoop(Sqrt11(st))

\* r = << low limb, high limb, inexact >> of the 55-bit root
SqrtRound(r, e) == Round(1, << r[1], r[2], 0, 0 >>, e, r[3])

\* the root of a finite x > 0 with a 53-bit mantissa
SqrtNorm(x) ==
    IF x[2] % 2 = 0
    THEN SqrtRound(SqrtLoop(<< x[3], x[4], 0, 0, 0, 0, 0 >>), (x[2] - 56) \div 2)
    ELSE SqrtRound(SqrtLoop(<< 2 * x[3] + (2 * x[4]) \div 2^28,
                               (2 * x[4]) % 2^28, 0, 0, 0, 0, 0 >>),
                   (x[2] - 57) \div 2)

\* sqrt(): correctly rounded, as IEEE 754 requires
Sqrt(x) ==
    IF IsNaN(x) THEN NaN
    ELSE IF IsZero(x) THEN x
    ELSE IF x[1] = -1 THEN NaN
    ELSE IF IsInf(x) THEN x
    ELSE SqrtNorm(Norm(x))

\* floor(log(2) * 2^100)
Ln2 == << 238762368, 259632073, 25132316, 45426 >>

\* the 112 fraction bits of a / b from two runs of the division, the second
\* continuing on the remainder of the first
FracOf(st1, st2) ==
    << st2[4] \div 2 + (st2[3] % 2) * 2^27, st2[3] \div 2, st1[4], st1[3] >>

FracNext(st1, b) == FracOf(st1, DivLoop(<< st1[1], st1[2], 0, 0, 0 >>, b[2], b[1]))

\* floor(a * 2^112 / b) for a < b < 2^54
Frac(a, b) == FracNext(DivLoop(<< a[2], a[1], 0, 0, 0 >>, b[2], b[1]), b)

\* OddInverse[j] = floor(2^112 / (2j+1)) for j = 1 .. 25, the coefficients
\* of atanh z = z (1 + z^2/3 + z^4/5 + ...) as fractions of 2^112
OddInverse ==
    << << 89478485, 89478485, 89478485, 89478485 >>,
       << 53687091, 53687091, 53687091, 53687091 >>,
       << 38347922, 153391689, 76695844, 38347922 >>,
       << 29826161, 119304647, 208783132, 29826161 >>,
       << 122016116, 219629009, 73209669, 24403223 >>,
       << 20648881, 185839931, 61946643, 20648881 >>,
       << 17895697, 17895697, 17895697, 17895697 >>,
       << 252645135, 15790320, 252645135, 15790320 >>,
       << 155410000, 56512727, 240179092, 14128181 >>,
       << 12782640, 51130563, 204522252, 12782640 >>,
       << 151724388, 23342213, 210079922, 11671106 >>,
       << 171798691, 118111600, 64424509, 10737418 >>,
       << 188899024, 39768215, 248551348, 9942053 >>,
       << 9256395, 9256395, 9256395, 9256395 >>,
       << 138547332, 17318416, 69273666, 8659208 >>,
       << 130150524, 252166640, 203360193, 8134407 >>,
       << 7669584, 84365429, 122713351, 7669584 >>,
       << 188630320, 239415406, 87060147, 7255012 >>,
       << 6882960, 151425129, 110127366, 6882960 >>,
       << 104755299, 117849712, 65472062, 6547206 >>,
       << 6242685, 6242685, 6242685, 6242685 >>,
       << 5965232, 184922203, 95443717, 5965232 >>,
       << 51402534, 211321529, 182764565, 5711392 >>,
       << 5478274, 98608943, 164348238, 5478274 >>,
       << 84215045, 5263440, 84215045, 5263440 >> >>

\* Horner's rule on the series in w = z^2: one step takes the state
\* << h, j >> with h = 1/(2j+3) + w/(2j+5) + ... to << 1/(2j+1) + w h, j - 1 >>
AtanhStep(st, w) ==
    << WAdd(OddInverse[st[2]], WMulTop(w, st[1])), st[2] - 1 >>

\* four steps at a time down to 1/3 + w/5 + ...
RECURSIVE AtanhFrom(_, _)
AtanhFrom(st, w) ==
    IF st[2] = 0 THEN st[1]
    ELSE AtanhFrom(AtanhStep(AtanhStep(AtanhStep(AtanhStep(st, w), w), w), w), w)

\* (atanh z) / z - 1 = w/3 + w^2/5 + ... for w = z^2 <= 1/25, as a fraction
\* of 2^112; the terms dropped are below 2^-116
AtanhTail(w) == WMulTop(w, AtanhFrom(<< OddInverse[25], 24 >>, w))

\* k log 2 + zs * u * 2^(-111-sh) as << sign, wide natural, exponent >>; for
\* k # 0 in units of 2^-100
LogJoin(zs, u, sh, k) ==
    IF k = 0 THEN << zs, u, -111 - sh >>
    ELSE IF zs * k > 0
         THEN << zs, WAdd(WTimes(Ln2, Abs(k)), WShr(u, 11 + sh)), -100 >>
         ELSE << -zs, WSub(WTimes(Ln2, Abs(k)), WShr(u, 11 + sh)), -100 >>

\* k log 2 + 2 atanh z for z = zs * zn * 2^-sh, 1/8 < zn / 2^112 < 1/2
LogOfRatio(zs, zn, sh, k) ==
    LogJoin(zs, WAdd(zn, WMulTop(zn, AtanhTail(WShr(WMulTop(zn, zn), 2 * sh)))),
            sh, k)

\* log(m * 2^k) for 3/4 <= m < 3/2 and z = (m - 1)/(m + 1) = zs * a / b
LogReduced(zs, a, b, k) ==
    IF a = WZero
    THEN (IF k = 0 THEN << 1, WZero, 0 >>
          ELSE << IF k < 0 THEN -1 ELSE 1, WTimes(Ln2, Abs(k)), -100 >>)
    ELSE LogOfRatio(zs, Frac(WShl(a, 52 - WLen(a)), b), 52 - WLen(a), k)

\* the logarithm of a finite x > 0 with a 53-bit mantissa, to more than 96
\* bits: log x = k log 2 + 2 atanh((m - 1)/(m + 1)) for x = m * 2^k.  The
\* result << s, w, e >> is s * w * 2^e, cut off below the last bit of w,
\* with w = 0 for log 1 = 0
LogNorm(x) ==
    IF x[3] >= 25165824
    THEN LogReduced(-1, WSub(<< 0, 2^25, 0, 0 >>, Mant(x)),
                    WAdd(<< 0, 2^25, 0, 0 >>, Mant(x)), x[2] + 53)
    ELSE LogReduced(1, WSub(Mant(x), << 0, 2^24, 0, 0 >>),
                    WAdd(Mant(x), << 0, 2^24, 0, 0 >>), x[2] + 52)

\* one of the two doubles next to the logarithm t = << s, w, e >>: the one
\* nearer to zero, or with `up` the one farther from it; log 1 is exact
LogRound(t, up) ==
    IF t[2] = WZero THEN Zero
    ELSE RoundPick(t[1], WShr(t[2], WLen(t[2]) - 53), t[3] + (WLen(t[2]) - 53), up)

\* log(x) of the C library.  The library is linked, not part of the
\* repository, and its log is not correctly rounded: the result is within
\* one unit in the last place of log x, so that it is one of the two doubles
\* next to log x, and which of the two depends on the library and on x.
\* `up` says whether the library returns the neighbour farther from zero.
Log(x, up) ==
    IF IsNaN(x) THEN NaN
    ELSE IF IsZero(x) THEN Inf(-1)
    ELSE IF x[1] = -1 THEN NaN
    ELSE IF IsInf(x) THEN x
    ELSE LogRound(LogNorm(Norm(x)), up)

\* x with the two doubles next to the logarithm t
LogBoth(x, t) == << x, LogRound(t, FALSE), LogRound(t, TRUE) >>

\* the two values log(x) can have, with x: << x, nearer to zero, farther >>
LogPair(x) ==
    IF DPos(x) /\ ~IsInf(x) THEN LogBoth(x, LogNorm(Norm(x)))
    ELSE << x, Log(x, FALSE), Log(x, TRUE) >>

\* ------------------------------------------------------------------------
\* Program constants

\* eps = 1E-7, the jitter added to the diagonal of a training kernel: the
\* double nearest to 1/10^7, DDiv(D(1), D(10000000))
Eps == << 1, -76, 28147497, 180137800 >>

\* #define PI (3.14159265358979): the double nearest to
\* 314159265358979 / 10^14, which is 7074237752028433 * 2^-51
PI == << 1, -51, 26353589, 71576849 >>

\* 0.5, and alph = -1.0 of the BLAS calls
Half == << 1, -53, 16777216, 0 >>
MinusOne == << -1, -52, 16777216, 0 >>

\* the null pointer
NULL == "NULL"

\* ------------------------------------------------------------------------
\* Buffers

\* what a buffer holds before the program writes it
Stale == D(7)
Fresh(n) == [i \in 0 .. n - 1 |-> Stale]

\* ------------------------------------------------------------------------
\* BLAS and LAPACK routines, column-major as the Fortran library sees the
\* buffers: entry (i, j) of a matrix with leading dimension ld is a[i + j*ld].
\* The library is linked, not part of the repository: each routine does the
\* floating-point operations of the reference implementation, in its order.

\* dcopy_(N, x, 1, y, 1): y := x on the first n entries
dcopy(n, x, y) == [i \in DOMAIN y |-> IF i < n THEN x[i] ELSE y[i]]

\* daxpy_(N, alpha, x, 1, y, 1): y := y + alpha*x on the first n entries
daxpy(n, alpha, x, y) ==
    [i \in DOMAIN y |-> IF i < n THEN DAdd(y[i], DMul(alpha, x[i])) ELSE y[i]]

\* ddot_(N, x, 1, y, 1)
ddot(n, x, y) == DSum([i \in 0 .. n - 1 |-> DMul(x[i], y[i])], n)

\* dgemv_('T', M, N, alpha, A, LDA = M, x, 1, beta, y, 1):
\* y := alpha * A^T x + beta * y, A an m-by-n matrix; with beta = 0 the old
\* y is not read
dgemvT(m, n, alpha, a, x, beta, y) ==
    [j \in DOMAIN y |->
        IF j < n
        THEN DAdd(IF IsZero(beta) THEN Zero ELSE DMul(beta, y[j]),
                  DMul(alpha, DSum([i \in 0 .. m - 1 |-> DMul(a[i + j * m], x[i])], m)))
        ELSE y[j]]

\* dpotf2 with UPLO = 'L', from column j on: the lower triangle
\* (a[i + j*n], i >= j) is overwritten by the factor, the strict upper
\* triangle is neither read nor written.  info = j+1 at the first pivot
\* that is not positive.
RECURSIVE dpotrfFrom(_, _, _)

\* entry i of column j after k steps of dpotf2's column update
\* dgemv_('N', ..., -1.0, ..., 1.0, ...): a(i,j) := a(i,j) + (-1.0 * l(j,c)) * l(i,c)
\* for the columns c = 0 .. k-1 in turn
RECURSIVE dpotrfUpdate(_, _, _, _, _)
dpotrfUpdate(a, n, i, j, k) ==
    IF k = 0 THEN a[i + j * n]
    ELSE DAdd(dpotrfUpdate(a, n, i, j, k - 1),
              DMul(DMul(DNeg(One), a[j + (k - 1) * n]), a[i + (k - 1) * n]))

\* column j once its diagonal entry ljj is known: the entries below the
\* diagonal are updated and scaled by the reciprocal 1.0 / ljj (dscal_)
dpotrfScale(a, n, j, ljj) ==
    dpotrfFrom([x \in DOMAIN a |->
                   IF x = j + j * n THEN ljj
                   ELSE IF x \in {i + j * n : i \in j + 1 .. n - 1}
                        THEN DMul(DDiv(One, ljj), dpotrfUpdate(a, n, x - j * n, j, j))
                        ELSE a[x]],
               n, j + 1)

\* column j once its pivot ajj is known
dpotrfPivot(a, n, j, ajj) ==
    IF ~DPos(ajj)
    THEN [a |-> [a EXCEPT ![j + j * n] = ajj], info |-> j + 1]
    ELSE dpotrfScale(a, n, j, Sqrt(ajj))

dpotrfFrom(a, n, j) ==
    IF j = n THEN [a |-> a, info |-> 0]
    ELSE dpotrfPivot(a, n, j,
                     DSub(a[j + j * n],
                          DSum([k \in 0 .. j - 1 |->
                                   DMul(a[j + k * n], a[j + k * n])], j)))

\* dpotrf_('L', N, A, LDA = N, INFO)
dpotrf(a, n) == dpotrfFrom(a, n, 0)

\* row k of column c is solved to bk: it is eliminated from the rows below
ForwardStep(l, n, b, c, k, bk) ==
    [x \in DOMAIN b |->
        IF x = k + c * n THEN bk
        ELSE IF x \in {i + c * n : i \in k + 1 .. n - 1}
             THEN DSub(b[x], DMul(bk, l[(x - c * n) + k * n]))
             ELSE b[x]]

\* forward substitution L z = b for one right-hand side (column c of b),
\* rows k..n-1: a row that is zero is left alone
RECURSIVE ForwardCol(_, _, _, _, _)
ForwardCol(l, n, b, c, k) ==
    IF k = n THEN b
    ELSE IF IsZero(b[k + c * n]) THEN ForwardCol(l, n, b, c, k + 1)
    ELSE ForwardCol(l, n,
                    ForwardStep(l, n, b, c, k, DDiv(b[k + c * n], l[k + k * n])),
                    c, k + 1)

\* row i of column c in the back substitution, with the solved rows
\* i+1 .. k subtracted in turn from 1.0 * b(i)
RECURSIVE BackwardTemp(_, _, _, _, _, _)
BackwardTemp(l, n, b, c, i, k) ==
    IF k = i THEN DMul(One, b[i + c * n])
    ELSE DSub(BackwardTemp(l, n, b, c, i, k - 1), DMul(l[k + i * n], b[k + c * n]))

\* back substitution L^T x = z for one right-hand side, rows n-1 down to 0;
\* `done` counts the rows already solved, the row in hand is n-1-done
RECURSIVE BackwardCol(_, _, _, _, _)
BackwardCol(l, n, b, c, done) ==
    IF done = n THEN b
    ELSE BackwardCol(l, n,
                     [b EXCEPT ![(n - 1 - done) + c * n] =
                         DDiv(BackwardTemp(l, n, b, c, n - 1 - done, n - 1),
                              l[(n - 1 - done) + (n - 1 - done) * n])],
                     c, done + 1)

\* dtrsm_('L', 'L', 'N', 'N', N, NRHS, 1.0, L, LDA = N, B, LDB = N):
\* B := L^{-1} B, column by column
RECURSIVE dtrsmLLN(_, _, _, _, _)
dtrsmLLN(l, n, nrhs, b, c) ==
    IF c = nrhs THEN b
    ELSE dtrsmLLN(l, n, nrhs, ForwardCol(l, n, b, c, 0), c + 1)

\* dpotrs with UPLO = 'L': B := (L L^T)^{-1} B, column by column
RECURSIVE dpotrsL(_, _, _, _, _)
dpotrsL(l, n, nrhs, b, c) ==
    IF c = nrhs THEN b
    ELSE dpotrsL(l, n, nrhs,
                 BackwardCol(l, n, ForwardCol(l, n, b, c, 0), c, 0), c + 1)

\* dposv_ once the factorization f = dpotrf(A) is done
dposvSolve(f, n, nrhs, b) ==
    IF f.info # 0 THEN [a |-> f.a, b |-> b, info |-> f.info]
    ELSE [a |-> f.a, b |-> dpotrsL(f.a, n, nrhs, b, 0), info |-> 0]

\* dposv_('L', N, NRHS, A, LDA = N, B, LDB = N, INFO): factor A in place and
\* solve; B is left alone when the factorization fails
dposv(a, n, nrhs, b) == dposvSolve(dpotrf(a, n), n, nrhs, b)

\* dgemm_('T', 'N', M, M, N, alpha, A, LDA = N, B, LDB = N, beta, C, LDC = M):
\* C := alpha * A^T B + beta * C, A and B n-by-m, C m-by-m; with beta = 0
\* the old C is not read
dgemmTN(m, n, alpha, a, b, beta, c) ==
    [x \in DOMAIN c |->
        LET i == x % m
            j == x \div m
            temp == DSum([k \in 0 .. n - 1 |-> DMul(a[k + i * n], b[k + j * n])], n)
        IN  IF IsZero(beta) THEN DMul(alpha, temp)
            ELSE DAdd(DMul(alpha, temp), DMul(beta, c[x]))]

\* dsyrk_('L', 'T', M, N, alpha, A, LDA = N, beta, C, LDC = M):
\* C := alpha * A^T A + beta * C on the lower triangle (i >= j) only;
\* the strict upper triangle of C is not referenced, and with beta = 0 the
\* old C is not read
dsyrkLT(m, n, alpha, a, beta, c) ==
    [x \in DOMAIN c |->
        LET i == x % m
            j == x \div m
            temp == DSum([k \in 0 .. n - 1 |-> DMul(a[k + i * n], a[k + j * n])], n)
        IN  IF i < j THEN c[x]
            ELSE IF IsZero(beta) THEN DMul(alpha, temp)
            ELSE DAdd(DMul(alpha, temp), DMul(beta, c[x]))]

\* dtrmv_('L', 'N', 'N', N, L, LDA = N, x, 1): x := L x, L lower triangular,
\* with the columns j+1 .. n-1 done.  From column j down to column 0 a zero
\* x(j) is skipped, otherwise x(i) := x(i) + x(j) * l(i,j) for the rows i
\* below j, then x(j) := x(j) * l(j,j)
RECURSIVE dtrmvLN(_, _, _, _)
dtrmvLN(n, l, x, j) ==
    IF j < 0 THEN x
    ELSE IF IsZero(x[j]) THEN dtrmvLN(n, l, x, j - 1)
    ELSE dtrmvLN(n, l,
                 [i \in DOMAIN x |->
                     IF i = j THEN DMul(x[j], l[j + j * n])
                     ELSE IF i > j /\ i < n THEN DAdd(x[i], DMul(x[j], l[i + j * n]))
                     ELSE x[i]],
                 j - 1)

\* ------------------------------------------------------------------------
\* The heap

\* buffers the caller owns and passes in
CallerBufs ==
    {"krn", "krnp", "krnpp", "y", "yp", "var", "ret", "weights", "factor",
     "y_mn", "yp_mn", "mn", "smp"}

\* scratch buffers the library allocates with malloc
ScratchBufs == {"krxx", "lkrxx", "krpx", "krpp", "wt", "y_res", "V", "lkxx"}

Bufs == CallerBufs \cup ScratchBufs

\* the contents of a scratch buffer that is not allocated
NoBuf == << >>

\* a pointer argument is used by a callee: using a scratch buffer that is not
\* live is a use after free
Access(h, ptrs) ==
    IF (ptrs \cap ScratchBufs) \subseteq h.live THEN h ELSE [h EXCEPT !.uaf = TRUE]

\* b = malloc(n * sizeof(double)); ok says whether the allocation succeeds.
\* The new block is indeterminate; no function of the library reads a block
\* before writing it.
malloc(h, b, n, ok) ==
    IF ok
    THEN [h EXCEPT !.mem[b] = Fresh(n), !.live = @ \cup {b}, !.nalloc[b] = @ + 1]
    ELSE h

\* free(b)
free(h, b) ==
    [h EXCEPT !.mem[b] = NoBuf, !.live = @ \ {b}, !.nfree[b] = @ + 1,
              !.uaf = @ \/ b \notin h.live]

\* assert(V) on the pointer malloc returned: the process is terminated when
\* the allocation failed
NullCheckFails(ok) == ~ok

\* a build in which assert(info == 0) has no effect
InfoCheckSkipped(info) == FALSE

\* assert(info == 0) on the status of a factorization: the process is
\* terminated when the factorization failed
InfoCheckFails(info) == info # 0

\* for (i = 0; i < n; i++) dst[i] = src[i];
CopyLoop(mem, dst, src, n) ==
    [mem EXCEPT ![dst] = [i \in DOMAIN @ |-> IF i < n THEN mem[src][i] ELSE @[i]]]

\* for (i = 0; i < ns; i++) a[i * ns + i] += eps;
AddJitter(mem, a, ns) ==
    [mem EXCEPT ![a] = [x \in DOMAIN @ |->
                           IF x \in {i * ns + i : i \in 0 .. ns - 1}
                           THEN DAdd(@[x], Eps) ELSE @[x]]]

\* ------------------------------------------------------------------------
\* The functions of lib_gpr.c.  Each returns
\*   h       the heap when the function returns or the process aborts
\*   abort   TRUE when an assert of the function fails
\*   info    the status of its factorization (0 when it has none)
\*   handed  the matrix the function passes to the Cholesky factorization
\*   val     the value it returns (Zero for a void function)

Ret(h, abort, info, handed, val) ==
    [h |-> h, abort |-> abort, info |-> info, handed |-> handed, val |-> val]

\* dposv_ has returned r: the factor and the solution are in krn_chd and
\* wt, and assert(info == 0) decides whether the process goes on
get_gpr_weights_end(h0, m, wt, krn_chd, r) ==
    Ret([h0 EXCEPT !.mem = [m EXCEPT ![krn_chd] = r.a, ![wt] = r.b]],
        InfoCheckFails(r.info), r.info, m[krn_chd], Zero)

\* the call of dposv_ on the memory m the three loops have prepared
get_gpr_weights_solve(h0, m, wt, krn_chd, ns) ==
    get_gpr_weights_end(h0, m, wt, krn_chd, dposv(m[krn_chd], ns, 1, m[wt]))

get_gpr_weights(h, wt, krn_chd, krn, ns, y) ==
    get_gpr_weights_solve(
        Access(h, {wt, krn_chd, krn, y}),
        CopyLoop(AddJitter(CopyLoop(h.mem, krn_chd, krn, ns * ns), krn_chd, ns),
                 wt, y, ns),
        wt, krn_chd, ns)

\* gpr_predict with bet = 1.0: the product is added to what yp held
gpr_predict_accumulate(h, yp, wt, krnp, np, ns) ==
    Ret([Access(h, {yp, wt, krnp}) EXCEPT
            !.mem[yp] = dgemvT(ns, np, One, h.mem[krnp], h.mem[wt], One, @)],
        FALSE, 0, NoBuf, Zero)

\* alph = 1.0, bet = 0.0; dgemv_("T", &M, &N, &alph, krnp, &LDA, wt, ..., yp, ...)
gpr_predict(h, yp, wt, krnp, np, ns) ==
    Ret([Access(h, {yp, wt, krnp}) EXCEPT
            !.mem[yp] = dgemvT(ns, np, One, h.mem[krnp], h.mem[wt], Zero, @)],
        FALSE, 0, NoBuf, Zero)

\* var has been set to krnpp: dgemm_ subtracts krnp^T V
get_var_mat_gemm(m, var, krnp, np, ns) ==
    [m EXCEPT ![var] = dgemmTN(np, ns, MinusOne, m[krnp], m["V"], One, @)]

\* dposv_ has returned r on the memory m
get_var_mat_end(h0, m, var, krnpp, krnp, krn, np, ns, r) ==
    IF InfoCheckFails(r.info)
    THEN Ret([h0 EXCEPT !.mem = [m EXCEPT ![krn] = r.a, !["V"] = r.b]],
             TRUE, r.info, m[krn], Zero)
    ELSE Ret(free([h0 EXCEPT !.mem =
                      get_var_mat_gemm(
                          CopyLoop([m EXCEPT ![krn] = r.a, !["V"] = r.b],
                                   var, krnpp, np * np),
                          var, krnp, np, ns)],
                  "V"),
             FALSE, r.info, m[krn], Zero)

\* the call of dposv_ on the memory m the two loops have prepared
get_var_mat_solve(h0, m, var, krnpp, krnp, krn, np, ns) ==
    get_var_mat_end(h0, m, var, krnpp, krnp, krn, np, ns,
                    dposv(m[krn], ns, np, m["V"]))

\* V has been allocated in h0
get_var_mat_body(h0, var, krnpp, krnp, krn, np, ns) ==
    get_var_mat_solve(h0, CopyLoop(AddJitter(h0.mem, krn, ns), "V", krnp, ns * np),
                      var, krnpp, krnp, krn, np, ns)

get_var_mat(h, var, krnpp, krnp, krn, np, ns, ok) ==
    IF NullCheckFails(ok) THEN Ret(Access(h, {var, krnpp, krnp, krn}), TRUE, 0, NoBuf, Zero)
    ELSE get_var_mat_body(Access(malloc(h, "V", np * ns, ok), {var, krnpp, krnp, krn}),
                          var, krnpp, krnp, krn, np, ns)

\* the mirror loop with source and destination exchanged:
\*     var[i * np + j] = var[j * np + i];
MirrorFromStale(v, np) ==
    [x \in DOMAIN v |->
        IF x \div np < x % np THEN v[(x % np) * np + (x \div np)] ELSE v[x]]

\* for (i = 0; i < np; i++) for (j = i + 1; j < np; j++)
\*     var[j * np + i] = var[i * np + j];
Mirror(v, np) ==
    [x \in DOMAIN v |->
        IF x \div np > x % np THEN v[(x % np) * np + (x \div np)] ELSE v[x]]

\* V holds the solution of the triangular system in m: var is set to krnpp,
\* updated by dsyrk_ and mirrored
get_var_mat_chd_update(m, var, krnpp, np, ns) ==
    [CopyLoop(m, var, krnpp, np * np) EXCEPT
        ![var] = Mirror(dsyrkLT(np, ns, MinusOne, m["V"], One, @), np)]

\* get_var_mat_chd with the jitter loop of get_var_mat applied to krn_chd
get_var_mat_chd_jitter(h0, var, krnpp, krnp, krn_chd, np, ns) ==
    Ret(free([h0 EXCEPT !.mem =
                 get_var_mat_chd_update(
                     [CopyLoop(AddJitter(h0.mem, krn_chd, ns), "V", krnp, ns * np)
                         EXCEPT !["V"] = dtrsmLLN(h0.mem[krn_chd], ns, np, @, 0)],
                     var, krnpp, np, ns)],
             "V"),
        FALSE, 0, NoBuf, Zero)

\* V has been allocated in h0
get_var_mat_chd_body(h0, var, krnpp, krnp, krn_chd, np, ns) ==
    Ret(free([h0 EXCEPT !.mem =
                 get_var_mat_chd_update(
                     [CopyLoop(h0.mem, "V", krnp, ns * np) EXCEPT
                         !["V"] = dtrsmLLN(h0.mem[krn_chd], ns, np, @, 0)],
                     var, krnpp, np, ns)],
             "V"),
        FALSE, 0, NoBuf, Zero)

get_var_mat_chd(h, var, krnpp, krnp, krn_chd, np, ns, ok) ==
    IF NullCheckFails(ok)
    THEN Ret(Access(h, {var, krnpp, krnp, krn_chd}), TRUE, 0, NoBuf, Zero)
    ELSE get_var_mat_chd_body(
             Access(malloc(h, "V", np * ns, ok), {var, krnpp, krnp, krn_chd}),
             var, krnpp, krnp, krn_chd, np, ns)

\* get_log_likelihood storing the halved log-determinant in ret[1]
get_log_likelihood_halved(h0, ns, ret, ywt, log_det_k, log_2pi) ==
    Ret(IF ret # NULL
        THEN [h0 EXCEPT !.mem[ret] =
                 [i \in DOMAIN @ |->
                     CASE i = 0 -> DMul(DNeg(Half), ywt)
                       [] i = 1 -> DMul(DNeg(Half), log_det_k)
                       [] i = 2 -> DMul(DMul(DNeg(Half), D(ns)), log_2pi)
                       [] OTHER -> @[i]]]
        ELSE h0,
        FALSE, 0, NoBuf,
        DSub(DSub(DMul(DNeg(Half), ywt), DMul(Half, log_det_k)),
             DMul(DMul(Half, D(ns)), log_2pi)))

\* if (ret) { ret[0] = -0.5 * ywt; ret[1] = -log_det_k;
\*            ret[2] = -0.5 * ns * log(2 * PI); }  return llhd;
get_log_likelihood_end(h0, ns, ret, ywt, log_det_k, log_2pi) ==
    Ret(IF ret # NULL
        THEN [h0 EXCEPT !.mem[ret] =
                 [i \in DOMAIN @ |->
                     CASE i = 0 -> DMul(DNeg(Half), ywt)
                       [] i = 1 -> DNeg(log_det_k)
                       [] i = 2 -> DMul(DMul(DNeg(Half), D(ns)), log_2pi)
                       [] OTHER -> @[i]]]
        ELSE h0,
        FALSE, 0, NoBuf,
        DSub(DSub(DMul(DNeg(Half), ywt), DMul(Half, log_det_k)),
             DMul(DMul(Half, D(ns)), log_2pi)))

\* the arguments get_log_likelihood passes to log(): the diagonal of the
\* factor f and 2 * PI
LogArgs(f, ns) == {f[i * ns + i] : i \in 0 .. ns - 1} \cup {DMul(D(2), PI)}

\* log is the log of the library on these arguments: log[x] is what log(x)
\* returns
get_log_likelihood(h, wt, y, ns, krn_chd, ret, log) ==
    get_log_likelihood_end(
        Access(h, {wt, y, krn_chd, ret}), ns, ret,
        ddot(ns, h.mem[y], h.mem[wt]),
        DSum([i \in 0 .. ns - 1 |-> DMul(D(2), log[h.mem[krn_chd][i * ns + i]])], ns),
        log[DMul(D(2), PI)])

\* if (mn) for (i = 0; i < ns; i++) y[i] += mn[i];
sample_gp_mean(m, y, mn, ns) ==
    IF mn # NULL
    THEN [m EXCEPT ![y] = [i \in DOMAIN @ |->
                              IF i < ns THEN DAdd(@[i], m[mn][i]) ELSE @[i]]]
    ELSE m

\* y holds the variates: dtrmv_ applies the factor, then the mean is added
sample_gp_draw(m, y, mn, ns) ==
    sample_gp_mean([m EXCEPT ![y] = dtrmvLN(ns, m["lkxx"], @, ns - 1)], y, mn, ns)

\* dpotrf_ has returned r on the memory m; z is what fill_normal_rnd draws
sample_gp_end(h0, m, y, mn, ns, z, r) ==
    IF InfoCheckFails(r.info)
    THEN Ret([h0 EXCEPT !.mem = [m EXCEPT !["lkxx"] = r.a]], TRUE, r.info,
             m["lkxx"], Zero)
    ELSE Ret(free([h0 EXCEPT !.mem =
                      sample_gp_draw(
                          [m EXCEPT !["lkxx"] = r.a,
                                    ![y] = [i \in DOMAIN @ |->
                                               IF i < ns THEN z[i] ELSE @[i]]],
                          y, mn, ns)],
                  "lkxx"),
             FALSE, r.info, m["lkxx"], Zero)

\* the call of dpotrf_ on the jittered copy in m
sample_gp_factor(h0, m, y, mn, ns, z) ==
    sample_gp_end(h0, m, y, mn, ns, z, dpotrf(m["lkxx"], ns))

\* lkxx has been allocated in h0
sample_gp_body(h0, y, mn, kxx, ns, z) ==
    sample_gp_factor(
        h0,
        AddJitter([h0.mem EXCEPT !["lkxx"] = dcopy(ns * ns, h0.mem[kxx], @)],
                  "lkxx", ns),
        y, mn, ns, z)

sample_gp(h, y, mn, kxx, ns, z, ok) ==
    IF NullCheckFails(ok) THEN Ret(Access(h, {y, mn, kxx}), TRUE, 0, NoBuf, Zero)
    ELSE sample_gp_body(Access(malloc(h, "lkxx", ns * ns, ok), {y, mn, kxx}),
                        y, mn, kxx, ns, z)

\* ------------------------------------------------------------------------
\* External collaborators: the kernel evaluators, the hyperparameter
\* optimizer and the random source are not part of lib_gpr.c.  The kernel
\* evaluators are modelled by a family of matrices indexed by the
\* hyperparameters; the optimizer and the random source by a choice.

\* hyperparameters for which the training kernel is L L^T for the lower
\* triangular L with diagonal d and entries o below it; s skews the query
\* kernel
PdParams == [kind : {"pd"}, d : 1 .. MaxDiag, o : {1}, s : {0, 1}]

\* hyperparameters for which the training kernel is not positive definite:
\* the factorization fails at the second pivot, or at the first
BadParams ==
    {[kind |-> "indef", d |-> 1, o |-> 2, s |-> 0],
     [kind |-> "neg", d |-> 1, o |-> 0, s |-> 1]}

Params == PdParams \cup BadParams

Min(a, b) == IF a < b THEN a ELSE b

\* entry (i, j) of the training-training kernel
TrainEntry(p, i, j) ==
    CASE p.kind = "pd" ->
            IF i = j THEN D(p.o * p.o * i + p.d * p.d)
            ELSE D(p.o * p.o * Min(i, j) + p.o * p.d)
      [] p.kind = "indef" -> IF i = j THEN One ELSE D(p.o)
      [] OTHER -> IF i = j THEN D(-1) ELSE Zero

\* entry (j, i) of the query-training cross kernel
CrossEntry(p, j, i) ==
    IF i = j THEN D(p.d) ELSE IF i < j THEN D(p.o) ELSE D(p.o + 1)

\* entry (i, j) of the query-query kernel
QueryEntry(p, i, j) ==
    IF i = j THEN D(p.d * p.d + p.o + 1) ELSE IF i < j THEN D(p.o) ELSE D(p.o + p.s)

\* the na-by-nb kernel matrix of point sets xa and xb, entry (a, b) at
\* a * nb + b
KernelOf(xa, xb, na, nb, p) ==
    [x \in 0 .. na * nb - 1 |->
        LET a == x \div nb
            b == x % nb
        IN  CASE xa = "x" /\ xb = "x" -> TrainEntry(p, a, b)
              [] xa = "xp" /\ xb = "x" -> CrossEntry(p, a, b)
              [] OTHER -> QueryEntry(p, a, b)]

\* get_krn_se_ard(krn, xa, xb, na, nb, dim, p, npar)
get_krn_se_ard(h, krn, xa, xb, na, nb, p) ==
    [Access(h, {krn}) EXCEPT !.mem[krn] = KernelOf(xa, xb, na, nb, p)]

\* get_asymm_covar(krn, xa, xb, axa, axb, na, nb, dim, p, npar)
get_asymm_covar(h, krn, xa, xb, na, nb, p) ==
    [Access(h, {krn}) EXCEPT !.mem[krn] = KernelOf(xa, xb, na, nb, p)]

\* what the optimizer may leave in p
OptResults(p) == {[p EXCEPT !.kind = "pd"], [p EXCEPT !.d = MaxDiag]}

\* the training targets and the prior means
YBase == {2}
MeanBase == {0, 1}

\* the variates fill_normal_rnd(y, n, seed) draws for the seed in use
Noise(n) == [i \in 0 .. n - 1 |-> D(1 - i)]

\* ------------------------------------------------------------------------
\* State

VARIABLES
    h,        \* the heap: mem, live, nalloc, nfree, uaf
    ns, np,   \* the numbers of training and of query points
    p,        \* the hyperparameters
    pc,       \* "client", a position inside an orchestrator, or "done"
    variant,  \* the orchestrator running: "plain", "asymm" or "mean"
    is_opt,   \* its is_opt argument
    var_yp,   \* its var_yp argument: a buffer or NULL
    trace,    \* the steps the running orchestrator has taken
    aborted,  \* an assert has failed and the process is gone
    ncalls,   \* library calls made so far
    last,     \* the last library call: op, info, val, arg
    handed,   \* the matrix last passed to a Cholesky factorization
    chd0,     \* the factor as the last get_gpr_weights left it
    mem0,     \* the caller's buffers as they were before any call
    libm      \* the log of the C library on the arguments passed to it so
              \* far: libm[x] is what log(x) returns

vars ==
    << h, ns, np, p, pc, variant, is_opt, var_yp, trace, aborted, ncalls,
       last, handed, chd0, mem0, libm >>

InitMem(n1, n2, p0, ya) ==
    [b \in Bufs |->
        CASE b = "krn" -> KernelOf("x", "x", n1, n1, p0)
          [] b = "krnp" -> KernelOf("xp", "x", n2, n1, p0)
          [] b = "krnpp" -> KernelOf("xp", "xp", n2, n2, p0)
          [] b = "y" -> [i \in 0 .. n1 - 1 |-> D(ya + i)]
          [] b = "yp" -> Fresh(n2)
          [] b = "var" -> Fresh(n2 * n2)
          [] b = "ret" -> Fresh(3)
          [] b = "weights" -> Fresh(n1)
          [] b = "factor" -> Fresh(n1 * n1)
          [] b = "y_mn" -> [i \in 0 .. n1 - 1 |-> Zero]
          [] b = "yp_mn" -> [i \in 0 .. n2 - 1 |-> Zero]
          [] b = "mn" -> [i \in 0 .. n1 - 1 |-> D(i + 1)]
          [] b = "smp" -> Fresh(n1)
          [] OTHER -> NoBuf]

NoCall == [op |-> "none", info |-> 0, val |-> Zero, arg |-> NULL]

Init ==
    \E n1 \in 1 .. MaxN, n2 \in 1 .. MaxN, p0 \in Params, ya \in YBase :
        /\ ns = n1
        /\ np = n2
        /\ p = p0
        /\ h = [mem |-> InitMem(n1, n2, p0, ya), live |-> {},
                nalloc |-> [b \in ScratchBufs |-> 0],
                nfree |-> [b \in ScratchBufs |-> 0], uaf |-> FALSE]
        /\ mem0 = InitMem(n1, n2, p0, ya)
        /\ pc = "client"
        /\ variant = "plain"
        /\ is_opt = FALSE
        /\ var_yp = NULL
        /\ trace = << >>
        /\ aborted = FALSE
        /\ ncalls = 0
        /\ last = NoCall
        /\ handed = NoBuf
        /\ chd0 = NoBuf
        /\ libm = [x \in {} |-> Zero]

\* ------------------------------------------------------------------------
\* The driver: a single-threaded caller of the library on its own buffers

CanCall == pc = "client" /\ ~aborted /\ ncalls < MaxCalls

\* the driver holds a factor once get_gpr_weights has filled its buffer
HasFactor == h.mem["factor"] # mem0["factor"]

\* the effect of a call with result r on the driver's state
Called(op, arg, r) ==
    /\ h' = r.h
    /\ aborted' = r.abort
    /\ handed' = IF r.handed # NoBuf THEN r.handed ELSE handed
    /\ last' = [op |-> op, info |-> r.info, val |-> r.val, arg |-> arg]
    /\ ncalls' = ncalls + 1
    /\ UNCHANGED << ns, np, p, pc, variant, is_opt, var_yp, trace, mem0 >>

CallGetGprWeights ==
    /\ CanCall
    /\ \E r \in {get_gpr_weights(h, "weights", "factor", "krn", ns, "y")} :
           /\ Called("get_gpr_weights", "krn", r)
           /\ chd0' = r.h.mem["factor"]
    /\ UNCHANGED libm

CallGprPredict ==
    /\ CanCall
    /\ \E krnp \in {"krnp"} \cup (IF np = ns THEN {"krn"} ELSE {}) :
           Called("gpr_predict", krnp, gpr_predict(h, "yp", "weights", krnp, np, ns))
    /\ UNCHANGED << chd0, libm >>

CallGetVarMat ==
    /\ CanCall
    /\ \E ok \in BOOLEAN :
           Called("get_var_mat", "krn",
                  get_var_mat(h, "var", "krnpp", "krnp", "krn", np, ns, ok))
    /\ UNCHANGED << chd0, libm >>

CallGetVarMatChd ==
    /\ CanCall
    /\ HasFactor
    /\ \E ok \in BOOLEAN :
           Called("get_var_mat_chd", "factor",
                  get_var_mat_chd(h, "var", "krnpp", "krnp", "factor", np, ns, ok))
    /\ UNCHANGED << chd0, libm >>

\* log is a function: on an argument it has seen it returns what it
\* returned before; on a new argument it returns either neighbour of the
\* logarithm, as up says
CallGetLogLikelihood ==
    /\ CanCall
    /\ HasFactor
    /\ \E t \in {{LogPair(x) : x \in LogArgs(h.mem["factor"], ns) \ DOMAIN libm}} :
       \E up \in [LogArgs(h.mem["factor"], ns) \ DOMAIN libm -> BOOLEAN] :
           /\ libm' = [x \in DOMAIN libm \cup LogArgs(h.mem["factor"], ns) |->
                          IF x \in DOMAIN libm THEN libm[x]
                          ELSE (CHOOSE e \in t : e[1] = x)[IF up[x] THEN 3 ELSE 2]]
           /\ \E ret \in {NULL, "ret"} :
              \E r \in {get_log_likelihood(h, "weights", "y", ns, "factor",
                                           ret, libm')} :
                  Called("get_log_likelihood", ret, r)
    /\ UNCHANGED chd0

CallSampleGp ==
    /\ CanCall
    /\ \E mn \in {NULL, "mn"}, ok \in BOOLEAN :
           Called("sample_gp", mn,
                  sample_gp(h, "smp", mn, "krn", ns, Noise(ns), ok))
    /\ UNCHANGED << chd0, libm >>

\* ------------------------------------------------------------------------
\* The orchestrators gpr_interpolate, gpr_interpolate_asymm and
\* gpr_interpolate_mean, one action per statement group; `variant` says
\* which of the three is running

Variants == {"plain", "asymm", "mean"}

Running(at) == pc = at /\ ~aborted

\* ALPHA = -1.0 of gpr_interpolate_mean
ALPHA == MinusOne

\* the scratch buffers in the order of the malloc calls, with their sizes
AllocOrder(v) ==
    IF v = "mean" THEN << "krxx", "lkrxx", "krpx", "krpp", "y_res", "wt" >>
    ELSE << "krxx", "lkrxx", "krpx", "krpp", "wt" >>

ScratchSize(b, n1, n2) ==
    CASE b \in {"krxx", "lkrxx"} -> n1 * n1
      [] b = "krpx" -> n2 * n1
      [] b = "krpp" -> n2 * n2
      [] OTHER -> n1

\* the free calls without free(krpp)
FreeOrderLeaky(v) ==
    IF v = "mean" THEN << "wt", "y_res", "krpx", "lkrxx", "krxx" >>
    ELSE << "wt", "krpx", "lkrxx", "krxx" >>

\* the scratch buffers in the order of the free calls
FreeOrder(v) ==
    IF v = "mean" THEN << "wt", "y_res", "krpx", "lkrxx", "krxx", "krpp" >>
    ELSE << "wt", "krpx", "lkrxx", "krxx", "krpp" >>

\* the first k malloc calls of the orchestrator, all successful
RECURSIVE MallocFirst(_, _, _, _, _)
MallocFirst(hp, order, k, n1, n2) ==
    IF k = 0 THEN hp
    ELSE malloc(MallocFirst(hp, order, k - 1, n1, n2), order[k],
                ScratchSize(order[k], n1, n2), TRUE)

\* the first k free calls of the orchestrator
RECURSIVE FreeFirst(_, _, _)
FreeFirst(hp, order, k) ==
    IF k = 0 THEN hp ELSE free(FreeFirst(hp, order, k - 1), order[k])

\* the kernel evaluator the running orchestrator uses
KrnEval(hp, krn, xa, xb, na, nb) ==
    IF variant = "asymm" THEN get_asymm_covar(hp, krn, xa, xb, na, nb, p)
    ELSE get_krn_se_ard(hp, krn, xa, xb, na, nb, p)

\* the targets the running orchestrator solves on
YArg == IF variant = "mean" THEN "y_res" ELSE "y"

\* the call and the malloc block; k of the malloc calls succeed and the
\* assert after the first failing one ends the process
OrchEnter ==
    /\ CanCall
    /\ ncalls = 0
    /\ \E v \in Variants, opt \in BOOLEAN, vy \in {NULL, "var"} :
       \E m \in (IF v = "mean" THEN MeanBase ELSE {0}), k \in 0 .. Len(AllocOrder(v)) :
           /\ variant' = v
           /\ is_opt' = opt
           /\ var_yp' = vy
           /\ h' = MallocFirst(
                     [h EXCEPT !.mem["y_mn"] = [i \in DOMAIN @ |-> D(m * (i + 1))],
                               !.mem["yp_mn"] = [j \in DOMAIN @ |-> D(m * (j + 2))]],
                     AllocOrder(v), k, ns, np)
           /\ aborted' = NullCheckFails(k = Len(AllocOrder(v)))
           /\ pc' = IF v = "mean" THEN "resid" ELSE "opt"
           /\ last' = [op |-> "gpr_interpolate", info |-> 0, val |-> Zero, arg |-> vy]
    /\ trace' = << "malloc" >>
    /\ ncalls' = ncalls + 1
    /\ UNCHANGED << ns, np, p, handed, chd0, mem0,
                    libm >>

\* dcopy_(y -> y_res); daxpy_(-1.0 * y_mn + y_res)
OrchResidual ==
    /\ Running("resid")
    /\ h' = [h EXCEPT !.mem["y_res"] =
                daxpy(ns, ALPHA, h.mem["y_mn"], dcopy(ns, h.mem["y"], @))]
    /\ trace' = Append(trace, "residual")
    /\ pc' = "opt"
    /\ UNCHANGED << ns, np, p, variant, is_opt, var_yp, aborted, ncalls, last,
                    handed, chd0, mem0,
                    libm >>

\* the optimizer step without the test of is_opt
OrchOptAlways ==
    /\ Running("opt")
    /\ \E q \in OptResults(p) : p' = q
    /\ trace' = Append(trace, "optimize")
    /\ pc' = "krxx"
    /\ UNCHANGED << h, ns, np, variant, is_opt, var_yp, aborted, ncalls, last,
                    handed, chd0, mem0,
                    libm >>

\* if (is_opt) get_hyper_param_ard(p, ...)
OrchOpt ==
    /\ Running("opt")
    /\ IF is_opt
       THEN /\ \E q \in OptResults(p) : p' = q
            /\ trace' = Append(trace, "optimize")
       ELSE UNCHANGED << p, trace >>
    /\ pc' = "krxx"
    /\ UNCHANGED << h, ns, np, variant, is_opt, var_yp, aborted, ncalls, last,
                    handed, chd0, mem0,
                    libm >>

\* get_krn_se_ard(krxx, x, x, ns, ns, ...)
OrchKrnXX ==
    /\ Running("krxx")
    /\ h' = KrnEval(h, "krxx", "x", "x", ns, ns)
    /\ trace' = Append(trace, "krn_xx")
    /\ pc' = "weights"
    /\ UNCHANGED << ns, np, p, variant, is_opt, var_yp, aborted, ncalls, last,
                    handed, chd0, mem0,
                    libm >>

\* get_gpr_weights(wt, lkrxx, krxx, ns, dim, y)
OrchWeights ==
    /\ Running("weights")
    /\ \E r \in {get_gpr_weights(h, "wt", "lkrxx", "krxx", ns, YArg)} :
           /\ h' = r.h
           /\ aborted' = r.abort
           /\ handed' = r.handed
           /\ chd0' = r.h.mem["lkrxx"]
           /\ last' = [op |-> "get_gpr_weights", info |-> r.info, val |-> r.val,
                       arg |-> "krxx"]
    /\ trace' = Append(trace, "weights")
    /\ pc' = "krpx"
    /\ UNCHANGED << ns, np, p, variant, is_opt, var_yp, ncalls, mem0,
                    libm >>

\* get_krn_se_ard(krpx, xp, x, np, ns, ...)
OrchKrnPX ==
    /\ Running("krpx")
    /\ h' = KrnEval(h, "krpx", "xp", "x", np, ns)
    /\ trace' = Append(trace, "krn_px")
    /\ pc' = "predict"
    /\ UNCHANGED << ns, np, p, variant, is_opt, var_yp, aborted, ncalls, last,
                    handed, chd0, mem0,
                    libm >>

\* gpr_predict(yp, wt, krpx, np, ns)
OrchPredict ==
    /\ Running("predict")
    /\ h' = gpr_predict(h, "yp", "wt", "krpx", np, ns).h
    /\ trace' = Append(trace, "predict")
    /\ pc' = IF variant = "mean" THEN "addmean" ELSE "var"
    /\ UNCHANGED << ns, np, p, variant, is_opt, var_yp, aborted, ncalls, last,
                    handed, chd0, mem0,
                    libm >>

\* N = np; daxpy_(&N, &ALPHA, yp_mn, &INCX, yp, &INCY)
OrchAddMean ==
    /\ Running("addmean")
    /\ h' = [h EXCEPT !.mem["yp"] = daxpy(np, ALPHA, h.mem["yp_mn"], @)]
    /\ trace' = Append(trace, "add_mean")
    /\ pc' = "var"
    /\ UNCHANGED << ns, np, p, variant, is_opt, var_yp, aborted, ncalls, last,
                    handed, chd0, mem0,
                    libm >>

\* if (var_yp) { get_krn_se_ard(krpp, xp, xp, ...); get_var_mat_chd(...); }
OrchVar ==
    /\ Running("var")
    /\ IF var_yp # NULL
       THEN \E ok \in BOOLEAN :
            \E r \in {get_var_mat_chd(KrnEval(h, "krpp", "xp", "xp", np, np),
                                      var_yp, "krpp", "krpx", "lkrxx", np, ns, ok)} :
                /\ h' = r.h
                /\ aborted' = r.abort
                /\ trace' = trace \o << "krn_pp", "var_chd" >>
       ELSE UNCHANGED << h, aborted, trace >>
    /\ pc' = "free"
    /\ UNCHANGED << ns, np, p, variant, is_opt, var_yp, ncalls, last, handed,
                    chd0, mem0,
                    libm >>

\* free(wt); ... free(krpp); and the return
OrchFree ==
    /\ Running("free")
    /\ h' = FreeFirst(h, FreeOrder(variant), Len(FreeOrder(variant)))
    /\ trace' = Append(trace, "free")
    /\ pc' = "done"
    /\ UNCHANGED << ns, np, p, variant, is_opt, var_yp, aborted, ncalls, last,
                    handed, chd0, mem0,
                    libm >>

Next ==
    \/ CallGetGprWeights
    \/ CallGprPredict
    \/ CallGetVarMat
    \/ CallGetVarMatChd
    \/ CallGetLogLikelihood
    \/ CallSampleGp
    \/ OrchEnter
    \/ OrchResidual
    \/ OrchOpt
    \/ OrchKrnXX
    \/ OrchWeights
    \/ OrchKrnPX
    \/ OrchPredict
    \/ OrchAddMean
    \/ OrchVar
    \/ OrchFree

Spec == Init /\ [][Next]_vars

\* ------------------------------------------------------------------------
\* Properties

\* the product sum_i a[off + i] * x[i], accumulated in index order
Dot(a, x, off, n) == DSum([i \in 0 .. n - 1 |-> DMul(a[off + i], x[i])], n)

Max(a, b) == IF a < b THEN b ELSE a

\* the kernel k with the jitter added once to each diagonal entry
JitteredOnce(k, n) ==
    [x \in DOMAIN k |->
        IF x \in {i * n + i : i \in 0 .. n - 1} THEN DAdd(k[x], Eps) ELSE k[x]]

\* the training kernel the caller supplied: the driver's krn as it was before
\* any call, or the kernel an orchestrator evaluates at its hyperparameters
SuppliedKernel ==
    IF pc = "client" THEN mem0["krn"] ELSE KernelOf("x", "x", ns, ns, p)

\* C1: after gpr_interpolate_mean has predicted, the posterior mean is the
\* residual prediction with the query prior mean added back:
\* yp[j] = sum_i krpx[j*ns + i] * wt[i] + yp_mn[j].
C1_MeanAddedBack ==
    (variant = "mean" /\ pc = "var" /\ ~aborted) =>
        \A j \in 0 .. np - 1 :
            h.mem["yp"][j] =
                DAdd(Dot(h.mem["krpx"], h.mem["wt"], j * ns, ns), h.mem["yp_mn"][j])

\* C2: every matrix passed to a Cholesky factorization by get_gpr_weights,
\* get_var_mat or sample_gp is the supplied training kernel with the jitter
\* added exactly once, however many calls were made on the same kernel buffer.
C2_JitterOnce ==
    handed # NoBuf => handed = JitteredOnce(SuppliedKernel, ns)

\* C3: the inputs of get_gpr_weights, gpr_predict, get_var_mat and
\* get_var_mat_chd (training kernel, targets, cross kernel, query kernel) hold
\* after every call that returns what they held before it.
C3_InputsUnchanged ==
    (pc = "client" /\ ~aborted) =>
        \A b \in {"krn", "y", "krnp", "krnpp"} : h.mem[b] = mem0[b]

\* the variance matrix v that get_var_mat_chd must leave, given the query
\* kernel krnpp and the solved cross kernel V: symmetric, entries (i, j) and
\* (j, i) both holding the updated value krnpp - V^T V of the triangle the
\* update writes
VarIs(v, krnpp, V) ==
    \A i, j \in 0 .. np - 1 :
        /\ v[i * np + j] = v[j * np + i]
        /\ v[i * np + j] =
               DSub(krnpp[Min(i, j) * np + Max(i, j)],
                    DSum([l \in 0 .. ns - 1 |->
                             DMul(V[l + Max(i, j) * ns], V[l + Min(i, j) * ns])], ns))

\* C4: the matrix get_var_mat_chd returns is exactly symmetric, and entries
\* (i, j) and (j, i) both hold the value of the updated triangle.
C4_VarChdSymmetric ==
    /\ (pc = "client" /\ last.op = "get_var_mat_chd" /\ ~aborted) =>
           VarIs(h.mem["var"], h.mem["krnpp"],
                 dtrsmLLN(h.mem["factor"], ns, np, h.mem["krnp"], 0))
    /\ (pc = "free" /\ var_yp # NULL /\ ~aborted) =>
           VarIs(h.mem[var_yp], h.mem["krpp"],
                 dtrsmLLN(h.mem["lkrxx"], ns, np, h.mem["krpx"], 0))

C4_Witness ==
    /\ pc = "client" /\ last.op = "get_var_mat_chd" /\ ~aborted
    /\ np = 2 /\ ns = 2
    /\ h.mem["krnpp"][1] # h.mem["krnpp"][2]
    /\ h.mem["var"][1] # h.mem["krnpp"][1]

\* C5: a failed Cholesky factorization ends the call at once: the process is
\* terminated, nothing is retried, and no later step acts (no prediction, no
\* variance, no sample written; in an orchestrator the weights step is the
\* last one taken).
C5_Step ==
    /\ ~aborted
    /\ last'.info # 0 =>
           /\ aborted'
           /\ \A b \in {"yp", "var", "smp"} : h'.mem[b] = h.mem[b]
           /\ pc # "client" => trace' = Append(trace, "weights")

C5_FailureTerminates == [][C5_Step]_vars

C5_Witness ==
    /\ aborted /\ last.info # 0 /\ pc # "client"
    /\ var_yp # NULL

\* the three terms of the score for the targets, the weights and the factor
\* the driver holds: the data-fit term -1/2 y.wt, minus the un-halved
\* log-determinant 2 sum_i log L[i][i], and the normalization term
\* -ns/2 log(2 PI), with the logarithms the library returns
ScoreTerms ==
    [i \in 0 .. 2 |->
        CASE i = 0 -> DMul(DNeg(Half), Dot(h.mem["y"], h.mem["weights"], 0, ns))
          [] i = 1 -> DNeg(DMul(D(2), DSum([j \in 0 .. ns - 1 |->
                                              libm[h.mem["factor"][j * ns + j]]], ns)))
          [] OTHER -> DMul(DMul(DNeg(Half), D(ns)), libm[DMul(D(2), PI)])]

\* C6: whichever neighbour of each logarithm the library returns, the value
\* get_log_likelihood returns equals ret[0] + 0.5 * ret[1] + ret[2] for the
\* ret it has filled, with ret[0] the data-fit term, ret[1] minus the
\* un-halved log-determinant (2 times the sum of the logs of the factor's
\* diagonal) and ret[2] the normalization term; with ret null it returns the
\* same score, the sum of these terms.
C6_ScoreFromParts ==
    last.op = "get_log_likelihood" =>
        /\ last.arg = "ret" =>
               /\ last.val = DAdd(DAdd(h.mem["ret"][0], DMul(Half, h.mem["ret"][1])),
                                  h.mem["ret"][2])
               /\ \A i \in 0 .. 2 : h.mem["ret"][i] = ScoreTerms[i]
        /\ last.val = DAdd(DAdd(ScoreTerms[0], DMul(Half, ScoreTerms[1])), ScoreTerms[2])

\* all three terms are reported for two samples, and the library rounds the
\* logarithm of one argument toward zero and of another away from it
C6_Witness ==
    /\ last.op = "get_log_likelihood" /\ last.arg = "ret"
    /\ ns = 2
    /\ ~IsZero(h.mem["ret"][1])
    /\ \E x, z \in LogArgs(h.mem["factor"], ns) :
           /\ x # z
           /\ libm[x] = Log(x, TRUE) /\ libm[x] # Log(x, FALSE)
           /\ libm[z] = Log(z, FALSE) /\ libm[z] # Log(z, TRUE)

\* C7: gpr_predict overwrites yp with the transpose-multiply of the cross
\* kernel and the weights, yp[j] = sum_i krnp[j*ns + i] * wt[i], whatever yp
\* held before.
C7_PredictOverwrites ==
    /\ (pc = "client" /\ last.op = "gpr_predict") =>
           \A j \in 0 .. np - 1 :
               h.mem["yp"][j] = Dot(h.mem[last.arg], h.mem["weights"], j * ns, ns)
    /\ ((pc = "addmean" \/ (pc = "var" /\ variant # "mean")) /\ ~aborted) =>
           \A j \in 0 .. np - 1 :
               h.mem["yp"][j] = Dot(h.mem["krpx"], h.mem["wt"], j * ns, ns)

C7_Witness ==
    /\ pc = "client" /\ last.op = "gpr_predict" /\ last.arg = "krnp"
    /\ ns = 2 /\ np = 2
    /\ HasFactor
    /\ h.mem["krnp"][1] # h.mem["krnp"][2]
    /\ h.mem["yp"] # mem0["yp"]

\* the steps of an orchestrator that the ordering property speaks about
OrderedSteps ==
    {"optimize", "krn_xx", "weights", "krn_px", "predict", "krn_pp", "var_chd"}

IsOrderedStep(s) == s \in OrderedSteps

\* the order of those steps in a complete run
ExpectedSteps ==
    (IF is_opt THEN << "optimize" >> ELSE << >>)
        \o << "krn_xx", "weights", "krn_px", "predict" >>
        \o (IF var_yp # NULL THEN << "krn_pp", "var_chd" >> ELSE << >>)

IsPrefix(s, t) == Len(s) <= Len(t) /\ s = SubSeq(t, 1, Len(s))

\* C8: in every orchestrator the optimizer runs iff is_opt is set and before
\* the training kernel is evaluated; the training kernel precedes
\* get_gpr_weights, which precedes the cross kernel and gpr_predict; the query
\* kernel and get_var_mat_chd run iff var_yp is non-null, after gpr_predict;
\* with var_yp null no variance is written.
C8_StepOrder ==
    pc # "client" =>
        /\ IsPrefix(SelectSeq(trace, IsOrderedStep), ExpectedSteps)
        /\ pc = "done" => SelectSeq(trace, IsOrderedStep) = ExpectedSteps
        /\ (pc \in {"weights", "krpx", "predict", "addmean", "var", "free"}
                /\ "krxx" \in h.live) =>
               h.mem["krxx"] = KernelOf("x", "x", ns, ns, p)
        /\ var_yp = NULL => h.mem["var"] = mem0["var"]

C8_Witness ==
    /\ pc = "done" /\ is_opt /\ var_yp # NULL /\ ~aborted
    /\ h.mem["var"] # mem0["var"]
    /\ trace[2] = "optimize"

\* C9: once get_gpr_weights has produced the factor, no later call changes it:
\* the driver's factor buffer and the orchestrator's lkrxx hold what
\* get_gpr_weights left, in particular when get_var_mat_chd receives it and
\* after it has run.
C9_FactorImmutable ==
    chd0 # NoBuf =>
        /\ pc = "client" => h.mem["factor"] = chd0
        /\ pc \in {"krpx", "predict", "addmean", "var", "free"} =>
               h.mem["lkrxx"] = chd0

C9_Witness ==
    /\ pc = "client" /\ chd0 # NoBuf /\ ~aborted
    /\ last.op = "get_var_mat_chd"
    /\ h.mem["var"] # mem0["var"]

\* no scratch buffer is allocated, and each was freed as often as allocated
AllReleased ==
    /\ h.live = {}
    /\ \A b \in ScratchBufs : h.nfree[b] = h.nalloc[b]

\* C10 (as stated): on every path out of a call, normal return or
\* termination on a failed factorization or allocation, every scratch buffer
\* has been freed exactly once and none is used after being freed.
C10_FreedOnEveryPath ==
    /\ ~h.uaf
    /\ (pc \in {"client", "done"} \/ aborted) => AllReleased

\* C10 (amended): no scratch buffer is used after being freed or freed twice;
\* on every normal return each scratch buffer has been freed exactly once and
\* none stays allocated; when a failed factorization or allocation terminates
\* the process, the scratch buffers allocated so far have not been freed.
C10_FreedOnReturn ==
    /\ ~h.uaf
    /\ \A b \in ScratchBufs : h.nfree[b] <= h.nalloc[b]
    /\ (pc \in {"client", "done"} /\ ~aborted) => AllReleased
    /\ aborted =>
           /\ \A b \in ScratchBufs :
                  h.nalloc[b] = h.nfree[b] + (IF b \in h.live THEN 1 ELSE 0)
           /\ (last.info # 0 /\ pc = "client" /\ last.op = "get_var_mat") =>
                  h.live = {"V"}
           /\ (last.info # 0 /\ pc = "client" /\ last.op = "sample_gp") =>
                  h.live = {"lkxx"}
           /\ (last.info # 0 /\ pc # "client") =>
                  h.live = {AllocOrder(variant)[k] : k \in 1 .. Len(AllocOrder(variant))}

C10_Witness ==
    /\ pc = "done" /\ ~aborted
    /\ var_yp # NULL
    /\ h.nalloc["V"] = 1 /\ h.nfree["V"] = 1
    /\ h.nalloc["krpp"] = 1 /\ h.nfree["krpp"] = 1

====
